---- MODULE Spec2Model ----
(***************************************************************************)
(* PoseFusionNode (pose_fusion/src/pose_fusion_node.cpp).                  *)
(*                                                                         *)
(* Four subscriptions feed four callbacks.  Each callback stores the       *)
(* arriving message in its role's slot and, when the counterpart slot of   *)
(* its pair is non-empty, runs fusePoses / fuseTwists, which publish the   *)
(* fused message (and, for poses, broadcast the transform).  main() spins  *)
(* the node on rclcpp::spin, a single-threaded executor.                   *)
(*                                                                         *)
(* Numbers.  A double d is held as the integer d * Scale, so 0.5 is 1 and  *)
(* 1.0 is 2.  Input samples are whole numbers and weights are multiples of *)
(* 1/Scale, so every product the node computes is exact in this            *)
(* representation, as it is in IEEE doubles for these values.              *)
(***************************************************************************)
EXTENDS Integers, Sequences, FiniteSets, TLC

\* ------------------------------------------------------------------ bounds
MaxArrivals == 3

\* --------------------------------------------------------------- constants
QueueDepth == 10
CovLen == 36
Scale == 2
Null == 0

D(n) == n * Scale
Mul(x, y) == (x * y) \div Scale

PoseRoles == {"lidar", "gnss"}
TwistRoles == {"ekf", "filter"}
Roles == PoseRoles \cup TwistRoles

CovIdx == 0 .. (CovLen - 1)

\* ------------------------------------------------------------------ samples
Quat(k) == <<  <<0, 0, 0, D(1)>>, <<0, 0, D(1), 0>>,
               <<D(1), 0, 0, 0>>, <<0, D(1), 0, 0>> >>[((k - 1) % 4) + 1]

PoseOf(k) == [position    |-> <<D(k), D(2 * k), D(0 - k)>>,
              orientation |-> Quat(k),
              covariance  |-> [i \in CovIdx |-> D(k * (i + 1))]]

TwistOf(k) == [linear     |-> <<D(k), D(k + 1), D(k + 2)>>,
               angular    |-> <<D(2 * k), D(0 - k), D(k + 3)>>,
               covariance |-> [i \in CovIdx |-> D(k + i)]]

\* The n-th message published carries sample number n of its kind, so any two
\* messages differ in every field.
SampleFor(r, n) == IF r \in PoseRoles THEN PoseOf(n) ELSE TwistOf(n)

\* Variant: the weights initialised to 1.0.
DefaultWeight_one == Scale

\* Weights are in units of 1/Scale.  The node's weights are all 0.5.
DefaultWeight == Scale \div 2

\* Other weight values <<lidar, gnss, ekf, filter>>: (1, 0) and (0, 1) for each
\* pair, and a pair that sums to 1 with a member outside [0, 1] beside a pair
\* that sums to 2.
WeightConfigs == { <<D(1), 0, 0, D(1)>>,
                   <<0, D(1), D(1), 0>>,
                   <<3, 0 - 1, 1, 3>> }

VARIABLES
    msgs,                    \* every message published so far; its index is its address
                             \* (history: queued, the messages waiting on its topic
                             \* when it arrived)
    inbox,                   \* per subscription: addresses of messages not yet taken
    frame,                   \* per callback: its position and locals
    processed,               \* history: addresses in the order the callbacks were invoked
    last_lidar_msg_,
    last_gnss_msg_,
    last_ekf_twist_msg_,
    last_filter_twist_msg_,
    lidar_weight_,
    gnss_weight_,
    ekf_twist_weight_,
    filter_twist_weight_,
    clock,                   \* the node's clock, read by now()
    final_pose_pub_,         \* messages published on /final/pose_with_covariance
    fused_twist_pub_,        \* messages published on /fused_twist
    tf_broadcaster_          \* transforms sent

slots == <<last_lidar_msg_, last_gnss_msg_, last_ekf_twist_msg_, last_filter_twist_msg_>>
poseSlots == <<last_lidar_msg_, last_gnss_msg_>>
twistSlots == <<last_ekf_twist_msg_, last_filter_twist_msg_>>
weights == <<lidar_weight_, gnss_weight_, ekf_twist_weight_, filter_twist_weight_>>
sinks == <<final_pose_pub_, fused_twist_pub_, tf_broadcaster_>>
vars == <<msgs, inbox, frame, processed, slots, weights, clock, sinks>>

\* ------------------------------------------------------------- shared_ptr
\* A SharedPtr is two words: the stored pointer and the control block.
NullPtr == [ptr |-> Null, ctl |-> Null]

\* explicit operator bool: the stored pointer is not null
HasValue(p) == p.ptr # Null

\* Variant: a slot that holds a sample keeps it.
StorePtr_keepFirst(p, m) == IF p.ptr = Null THEN [p EXCEPT !.ptr = m] ELSE p

\* operator=: the slot takes the pointer, then the control block, of the
\* message assigned (lines 47, 57, 67, 77)
StorePtr(p, m) == [p EXCEPT !.ptr = m]

StoreCtl(p, m) == [p EXCEPT !.ctl = m]

\* operator->: the message the stored pointer addresses
Deref(p) == msgs[p.ptr].sample

\* ------------------------------------------------------------ the messages
NewPose == [stamp |-> 0, frame_id |-> "",
            position |-> <<0, 0, 0>>,
            orientation |-> <<0, 0, 0, D(1)>>,
            covariance |-> [i \in CovIdx |-> 0]]

NewTwist == [stamp |-> 0, frame_id |-> "",
             linear |-> <<0, 0, 0>>,
             angular |-> <<0, 0, 0>>,
             covariance |-> [i \in CovIdx |-> 0]]

NoReads == [r \in Roles |-> {}]

IdleFrame == [pc |-> "idle", msg |-> Null, lidar_pos |-> <<0, 0, 0>>,
              gnss_pos |-> <<0, 0, 0>>, fused |-> NewPose, i |-> 0,
              src |-> NoReads]

Running == {r \in Roles : frame[r].pc # "idle"}

\* ------------------------------------------------------------------- Init
InitCommon ==
    /\ msgs = <<>>
    /\ inbox = [r \in Roles |-> <<>>]
    /\ frame = [r \in Roles |-> IdleFrame]
    /\ processed = <<>>
    /\ last_lidar_msg_ = NullPtr
    /\ last_gnss_msg_ = NullPtr
    /\ last_ekf_twist_msg_ = NullPtr
    /\ last_filter_twist_msg_ = NullPtr
    /\ clock = 1
    /\ final_pose_pub_ = <<>>
    /\ fused_twist_pub_ = <<>>
    /\ tf_broadcaster_ = <<>>

Init ==
    /\ InitCommon
    /\ lidar_weight_ = DefaultWeight
    /\ gnss_weight_ = DefaultWeight
    /\ ekf_twist_weight_ = DefaultWeight
    /\ filter_twist_weight_ = DefaultWeight

\* ---------------------------------------------------------------- sources
\* A source publishes a sample on the topic of role r; the subscription
\* keeps the last QueueDepth messages.
Enqueue(q, m) == IF Len(q) = QueueDepth THEN Append(Tail(q), m) ELSE Append(q, m)

Publish(r) ==
    /\ Len(msgs) < MaxArrivals
    /\ msgs' = Append(msgs, [role |-> r, sample |-> SampleFor(r, Len(msgs) + 1),
                              queued |-> Len(inbox[r])])
    /\ inbox' = [inbox EXCEPT ![r] = Enqueue(@, Len(msgs) + 1)]
    /\ UNCHANGED <<frame, processed, slots, weights, clock, sinks>>

\* --------------------------------------------------------------- executor
\* rclcpp::spin: one thread, so a callback is invoked only when none runs.
\* Variant: a multi-threaded executor with reentrant callbacks.
CanDispatch_reentrant(r) == TRUE

\* Variant: an executor with two threads.
CanDispatch_twoThreads(r) == Cardinality(Running) < 2

CanDispatch(r) == Running = {}

Dispatch(r) ==
    /\ CanDispatch(r)
    /\ frame[r].pc = "idle"
    /\ inbox[r] # <<>>
    /\ inbox' = [inbox EXCEPT ![r] = Tail(@)]
    /\ frame' = [frame EXCEPT ![r] = [IdleFrame EXCEPT !.pc = "store_ptr",
                                                       !.msg = Head(inbox[r])]]
    /\ processed' = Append(processed, Head(inbox[r]))
    /\ UNCHANGED <<msgs, slots, weights, clock, sinks>>

\* ------------------------------------------------------------ the callbacks
\* lines 45-53.  The assignment of a SharedPtr writes its two words in turn.
\* Variant: the callback tests its own slot.
lidarPoseCallback_cond_own == HasValue(last_lidar_msg_)

lidarPoseCallback_cond == HasValue(last_gnss_msg_)

lidarPoseCallback ==
    LET f == frame["lidar"] IN
    \/ /\ f.pc = "store_ptr"
       /\ last_lidar_msg_' = StorePtr(last_lidar_msg_, f.msg)
       /\ frame' = [frame EXCEPT !["lidar"].pc = "store_ctl"]
       /\ UNCHANGED <<msgs, inbox, processed, last_gnss_msg_, twistSlots,
                      weights, clock, sinks>>
    \/ /\ f.pc = "store_ctl"
       /\ last_lidar_msg_' = StoreCtl(last_lidar_msg_, f.msg)
       /\ frame' = [frame EXCEPT !["lidar"].pc = "check"]
       /\ UNCHANGED <<msgs, inbox, processed, last_gnss_msg_, twistSlots,
                      weights, clock, sinks>>
    \/ /\ f.pc = "check"
       /\ frame' = [frame EXCEPT !["lidar"] =
                        IF lidarPoseCallback_cond
                        THEN [@ EXCEPT !.pc = "fp_lidar_pos"]
                        ELSE IdleFrame]
       /\ UNCHANGED <<msgs, inbox, processed, slots, weights, clock, sinks>>

\* lines 55-63
\* Variant: the callback fuses only until the first pose is published.
gnssPoseCallback_cond_once == HasValue(last_lidar_msg_) /\ final_pose_pub_ = <<>>

\* Variant: the callback fuses only under weights in [0, 1] that sum to 1.
gnssPoseCallback_cond_validated ==
    /\ HasValue(last_lidar_msg_)
    /\ lidar_weight_ + gnss_weight_ = Scale
    /\ lidar_weight_ >= 0 /\ gnss_weight_ >= 0

gnssPoseCallback_cond == HasValue(last_lidar_msg_)

gnssPoseCallback ==
    LET f == frame["gnss"] IN
    \/ /\ f.pc = "store_ptr"
       /\ last_gnss_msg_' = StorePtr(last_gnss_msg_, f.msg)
       /\ frame' = [frame EXCEPT !["gnss"].pc = "store_ctl"]
       /\ UNCHANGED <<msgs, inbox, processed, last_lidar_msg_, twistSlots,
                      weights, clock, sinks>>
    \/ /\ f.pc = "store_ctl"
       /\ last_gnss_msg_' = StoreCtl(last_gnss_msg_, f.msg)
       /\ frame' = [frame EXCEPT !["gnss"].pc = "check"]
       /\ UNCHANGED <<msgs, inbox, processed, last_lidar_msg_, twistSlots,
                      weights, clock, sinks>>
    \/ /\ f.pc = "check"
       /\ frame' = [frame EXCEPT !["gnss"] =
                        IF gnssPoseCallback_cond
                        THEN [@ EXCEPT !.pc = "fp_lidar_pos"]
                        ELSE IdleFrame]
       /\ UNCHANGED <<msgs, inbox, processed, slots, weights, clock, sinks>>

\* lines 65-73
\* Variant: the callback fuses whatever the counterpart slot holds.
ekfTwistCallback_cond_always == TRUE

\* Variant: the rate fusion also waits for a position sample.
ekfTwistCallback_cond_pose ==
    HasValue(last_filter_twist_msg_) /\ HasValue(last_lidar_msg_)

ekfTwistCallback_cond == HasValue(last_filter_twist_msg_)

ekfTwistCallback ==
    LET f == frame["ekf"] IN
    \/ /\ f.pc = "store_ptr"
       /\ last_ekf_twist_msg_' = StorePtr(last_ekf_twist_msg_, f.msg)
       /\ frame' = [frame EXCEPT !["ekf"].pc = "store_ctl"]
       /\ UNCHANGED <<msgs, inbox, processed, poseSlots, last_filter_twist_msg_,
                      weights, clock, sinks>>
    \/ /\ f.pc = "store_ctl"
       /\ last_ekf_twist_msg_' = StoreCtl(last_ekf_twist_msg_, f.msg)
       /\ frame' = [frame EXCEPT !["ekf"].pc = "check"]
       /\ UNCHANGED <<msgs, inbox, processed, poseSlots, last_filter_twist_msg_,
                      weights, clock, sinks>>
    \/ /\ f.pc = "check"
       /\ frame' = [frame EXCEPT !["ekf"] =
                        IF ekfTwistCallback_cond
                        THEN [@ EXCEPT !.pc = "ft_init"]
                        ELSE IdleFrame]
       /\ UNCHANGED <<msgs, inbox, processed, slots, weights, clock, sinks>>

\* lines 75-83
\* Variant: the callback tests its own slot.
filterTwistCallback_cond_own == HasValue(last_filter_twist_msg_)

filterTwistCallback_cond == HasValue(last_ekf_twist_msg_)

filterTwistCallback ==
    LET f == frame["filter"] IN
    \/ /\ f.pc = "store_ptr"
       /\ last_filter_twist_msg_' = StorePtr(last_filter_twist_msg_, f.msg)
       /\ frame' = [frame EXCEPT !["filter"].pc = "store_ctl"]
       /\ UNCHANGED <<msgs, inbox, processed, poseSlots, last_ekf_twist_msg_,
                      weights, clock, sinks>>
    \/ /\ f.pc = "store_ctl"
       /\ last_filter_twist_msg_' = StoreCtl(last_filter_twist_msg_, f.msg)
       /\ frame' = [frame EXCEPT !["filter"].pc = "check"]
       /\ UNCHANGED <<msgs, inbox, processed, poseSlots, last_ekf_twist_msg_,
                      weights, clock, sinks>>
    \/ /\ f.pc = "check"
       /\ frame' = [frame EXCEPT !["filter"] =
                        IF filterTwistCallback_cond
                        THEN [@ EXCEPT !.pc = "ft_init"]
                        ELSE IdleFrame]
       /\ UNCHANGED <<msgs, inbox, processed, slots, weights, clock, sinks>>

\* -------------------------------------------------------------- fusePoses
\* Eigen::Vector3d(x, y, z) of a message's position (lines 87, 88)
Vector3d(m) == <<m.position[1], m.position[2], m.position[3]>>

\* w1 * a + w2 * b (lines 94-96, 102-103, 126-127, 132-133)
Blend(w1, a, w2, b) == Mul(w1, a) + Mul(w2, b)

\* Variant: the two weights exchanged.
FusedPosition_swapped(w1, a, w2, b) ==
    << Blend(w2, a[1], w1, b[1]), Blend(w2, a[2], w1, b[2]), Blend(w2, a[3], w1, b[3]) >>

\* lines 94-96
FusedPosition(w1, a, w2, b) ==
    << Blend(w1, a[1], w2, b[1]), Blend(w1, a[2], w2, b[2]), Blend(w1, a[3], w2, b[3]) >>

\* line 98
FusedOrientation(lidar) == lidar.orientation

\* Variant: the gnss matrix read column-major.
FusedCovariance_transposed(w1, lidar, w2, gnss, i) ==
    Blend(w1, lidar.covariance[i], w2, gnss.covariance[(i % 6) * 6 + (i \div 6)])

\* lines 102-103, one entry
FusedCovariance(w1, lidar, w2, gnss, i) ==
    Blend(w1, lidar.covariance[i], w2, gnss.covariance[i])

\* Variant: the rotation left at identity.
TransformOf_noRotation(fused_pose) ==
    [stamp          |-> fused_pose.stamp,
     frame_id       |-> "map",
     child_frame_id |-> "base_link",
     translation    |-> <<fused_pose.position[1], fused_pose.position[2],
                          fused_pose.position[3]>>,
     rotation       |-> <<0, 0, 0, D(1)>>]

\* Variant: the transform stamped with a fresh now().
TransformOf_restamped(fused_pose) ==
    [stamp          |-> clock,
     frame_id       |-> "map",
     child_frame_id |-> "base_link",
     translation    |-> <<fused_pose.position[1], fused_pose.position[2],
                          fused_pose.position[3]>>,
     rotation       |-> <<fused_pose.orientation[1], fused_pose.orientation[2],
                          fused_pose.orientation[3], fused_pose.orientation[4]>>]

\* lines 139-155: the TransformStamped built from a fused pose
TransformOf(fused_pose) ==
    [stamp          |-> fused_pose.stamp,
     frame_id       |-> "map",
     child_frame_id |-> "base_link",
     translation    |-> <<fused_pose.position[1], fused_pose.position[2],
                          fused_pose.position[3]>>,
     rotation       |-> <<fused_pose.orientation[1], fused_pose.orientation[2],
                          fused_pose.orientation[3], fused_pose.orientation[4]>>]

\* Variant: the message is sent twice.
Emit_twice(sink, m) == Append(Append(sink, m), m)

\* publish / sendTransform: the sink receives the message (lines 106, 136, 157)
Emit(sink, m) == Append(sink, m)

\* fusePoses, run by the callback c that called it.  A slot is dereferenced
\* only when its pointer is not null.
fusePoses(c) ==
    LET f == frame[c] IN
    \/ /\ f.pc = "fp_lidar_pos"                                  \* line 87
       /\ HasValue(last_lidar_msg_)
       /\ frame' = [frame EXCEPT ![c] =
                        [@ EXCEPT !.pc = "fp_gnss_pos",
                                  !.lidar_pos = Vector3d(Deref(last_lidar_msg_)),
                                  !.src["lidar"] = @ \cup {last_lidar_msg_.ptr}]]
       /\ UNCHANGED <<msgs, inbox, processed, slots, weights, clock, sinks>>
    \/ /\ f.pc = "fp_gnss_pos"                                   \* line 88
       /\ HasValue(last_gnss_msg_)
       /\ frame' = [frame EXCEPT ![c] =
                        [@ EXCEPT !.pc = "fp_position",
                                  !.gnss_pos = Vector3d(Deref(last_gnss_msg_)),
                                  !.src["gnss"] = @ \cup {last_gnss_msg_.ptr}]]
       /\ UNCHANGED <<msgs, inbox, processed, slots, weights, clock, sinks>>
    \/ /\ f.pc = "fp_position"                                   \* lines 90-96
       /\ frame' = [frame EXCEPT ![c] =
                        [@ EXCEPT !.pc = "fp_orientation",
                                  !.fused = [NewPose EXCEPT
                                      !.stamp = clock,
                                      !.frame_id = "map",
                                      !.position = FusedPosition(lidar_weight_, f.lidar_pos,
                                                                 gnss_weight_, f.gnss_pos)]]]
       /\ clock' = clock + 1
       /\ UNCHANGED <<msgs, inbox, processed, slots, weights, sinks>>
    \/ /\ f.pc = "fp_orientation"                                \* line 98
       /\ HasValue(last_lidar_msg_)
       /\ frame' = [frame EXCEPT ![c] =
                        [@ EXCEPT !.pc = "fp_covariance",
                                  !.i = 0,
                                  !.fused.orientation =
                                      FusedOrientation(Deref(last_lidar_msg_)),
                                  !.src["lidar"] = @ \cup {last_lidar_msg_.ptr}]]
       /\ UNCHANGED <<msgs, inbox, processed, slots, weights, clock, sinks>>
    \/ /\ f.pc = "fp_covariance"                                 \* lines 100-104
       /\ f.i < CovLen
       /\ HasValue(last_lidar_msg_)
       /\ HasValue(last_gnss_msg_)
       /\ frame' = [frame EXCEPT ![c] =
                        [@ EXCEPT !.i = f.i + 1,
                                  !.fused.covariance[f.i] =
                                      FusedCovariance(lidar_weight_, Deref(last_lidar_msg_),
                                                      gnss_weight_, Deref(last_gnss_msg_),
                                                      f.i),
                                  !.src["lidar"] = @ \cup {last_lidar_msg_.ptr},
                                  !.src["gnss"] = @ \cup {last_gnss_msg_.ptr}]]
       /\ UNCHANGED <<msgs, inbox, processed, slots, weights, clock, sinks>>
    \/ /\ f.pc = "fp_covariance"                                 \* line 106
       /\ f.i = CovLen
       /\ final_pose_pub_' = Emit(final_pose_pub_,
                                  [msg |-> f.fused, trigger |-> f.msg, src |-> f.src])
       /\ frame' = [frame EXCEPT ![c].pc = "fp_broadcast"]
       /\ UNCHANGED <<msgs, inbox, processed, slots, weights, clock,
                      fused_twist_pub_, tf_broadcaster_>>
    \/ /\ f.pc = "fp_broadcast"                                  \* lines 109, 139-158
       /\ tf_broadcaster_' = Emit(tf_broadcaster_,
                                  [msg |-> TransformOf(f.fused), trigger |-> f.msg])
       /\ frame' = [frame EXCEPT ![c] = IdleFrame]
       /\ UNCHANGED <<msgs, inbox, processed, slots, weights, clock,
                      final_pose_pub_, fused_twist_pub_>>

\* ------------------------------------------------------------- fuseTwists
\* Variant: the linear part passed through from ekf.
FusedLinear_ekf(ekf, filter) == ekf.linear

\* lines 119-125: the five components the node does not fuse
FusedLinear(ekf, filter) == <<0, 0, 0>>

FusedAngularXY(ekf, filter) == <<0, 0>>

\* Variant: the two weights exchanged.
FusedAngularZ_swapped(w1, ekf, w2, filter) ==
    Blend(w2, ekf.angular[3], w1, filter.angular[3])

\* lines 126-127
FusedAngularZ(w1, ekf, w2, filter) == Blend(w1, ekf.angular[3], w2, filter.angular[3])

\* lines 132-133, one entry
FusedTwistCovariance(w1, ekf, w2, filter, i) ==
    Blend(w1, ekf.covariance[i], w2, filter.covariance[i])

fuseTwists(c) ==
    LET f == frame[c] IN
    \/ /\ f.pc = "ft_init"                                       \* lines 114-116
       /\ frame' = [frame EXCEPT ![c] =
                        [@ EXCEPT !.pc = "ft_twist",
                                  !.fused = [NewTwist EXCEPT !.stamp = clock,
                                                             !.frame_id = "map"]]]
       /\ clock' = clock + 1
       /\ UNCHANGED <<msgs, inbox, processed, slots, weights, sinks>>
    \/ /\ f.pc = "ft_twist"                                      \* lines 119-127
       /\ HasValue(last_ekf_twist_msg_)
       /\ HasValue(last_filter_twist_msg_)
       /\ LET ekf == Deref(last_ekf_twist_msg_)
              filter == Deref(last_filter_twist_msg_)
              xy == FusedAngularXY(ekf, filter)
          IN frame' = [frame EXCEPT ![c] =
                        [@ EXCEPT !.pc = "ft_covariance",
                                  !.i = 0,
                                  !.fused.linear = FusedLinear(ekf, filter),
                                  !.fused.angular =
                                      <<xy[1], xy[2],
                                        FusedAngularZ(ekf_twist_weight_, ekf,
                                                      filter_twist_weight_, filter)>>,
                                  !.src["ekf"] = @ \cup {last_ekf_twist_msg_.ptr},
                                  !.src["filter"] = @ \cup {last_filter_twist_msg_.ptr}]]
       /\ UNCHANGED <<msgs, inbox, processed, slots, weights, clock, sinks>>
    \/ /\ f.pc = "ft_covariance"                                 \* lines 130-134
       /\ f.i < CovLen
       /\ HasValue(last_ekf_twist_msg_)
       /\ HasValue(last_filter_twist_msg_)
       /\ frame' = [frame EXCEPT ![c] =
                        [@ EXCEPT !.i = f.i + 1,
                                  !.fused.covariance[f.i] =
                                      FusedTwistCovariance(
                                          ekf_twist_weight_, Deref(last_ekf_twist_msg_),
                                          filter_twist_weight_, Deref(last_filter_twist_msg_),
                                          f.i),
                                  !.src["ekf"] = @ \cup {last_ekf_twist_msg_.ptr},
                                  !.src["filter"] = @ \cup {last_filter_twist_msg_.ptr}]]
       /\ UNCHANGED <<msgs, inbox, processed, slots, weights, clock, sinks>>
    \/ /\ f.pc = "ft_covariance"                                 \* line 136
       /\ f.i = CovLen
       /\ fused_twist_pub_' = Emit(fused_twist_pub_,
                                   [msg |-> f.fused, trigger |-> f.msg, src |-> f.src])
       /\ frame' = [frame EXCEPT ![c] = IdleFrame]
       /\ UNCHANGED <<msgs, inbox, processed, slots, weights, clock,
                      final_pose_pub_, tf_broadcaster_>>

\* Construction with other weight values than the defaults of lines 174-177.
InitW ==
    /\ InitCommon
    /\ \E w \in WeightConfigs :
          /\ lidar_weight_ = w[1]
          /\ gnss_weight_ = w[2]
          /\ ekf_twist_weight_ = w[3]
          /\ filter_twist_weight_ = w[4]

Next ==
    \/ \E r \in Roles : Publish(r)
    \/ \E r \in Roles : Dispatch(r)
    \/ lidarPoseCallback
    \/ gnssPoseCallback
    \/ ekfTwistCallback
    \/ filterTwistCallback
    \/ \E c \in PoseRoles : fusePoses(c)
    \/ \E c \in TwistRoles : fuseTwists(c)

Spec == Init /\ [][Next]_vars

SpecW == InitW /\ [][Next]_vars

\* ================================================================ properties
Counterpart(r) == CASE r = "lidar"  -> "gnss"
                    [] r = "gnss"   -> "lidar"
                    [] r = "ekf"    -> "filter"
                    [] r = "filter" -> "ekf"

RoleOf(id) == msgs[id].role
SampleOf(id) == msgs[id].sample

\* the k-th callback invocation is of role r
ArrivalOf(k, r) == RoleOf(processed[k]) = r

\* role r has received a sample: its callback has been invoked
Received(r) == \E k \in 1 .. Len(processed) : ArrivalOf(k, r)

IndexOf(id) == CHOOSE k \in 1 .. Len(processed) : processed[k] = id

Largest(S) == CHOOSE x \in S : \A y \in S : y <= x

\* the most recent sample of role r among the first k arrivals
LatestOf(r, k) ==
    LET S == {j \in 1 .. k : ArrivalOf(j, r)}
    IN  IF S = {} THEN Null ELSE processed[Largest(S)]

PosePcs == {"fp_lidar_pos", "fp_gnss_pos", "fp_position", "fp_orientation",
            "fp_covariance", "fp_broadcast"}
TwistPcs == {"ft_init", "ft_twist", "ft_covariance"}

PoseFusing == \E c \in PoseRoles : frame[c].pc \in PosePcs
TwistFusing == \E c \in TwistRoles : frame[c].pc \in TwistPcs

Elems(s) == {s[k] : k \in 1 .. Len(s)}

\* the arrivals of the pair P that found their counterpart already received
ReadyArrivals(P) ==
    {k \in 1 .. Len(processed) :
        /\ RoleOf(processed[k]) \in P
        /\ \E j \in 1 .. (k - 1) : ArrivalOf(j, Counterpart(RoleOf(processed[k])))}

\* the arrival of message id has been processed to the end of its callback
Completed(id) == id \in Elems(processed) /\ \A r \in Roles : frame[r].msg # id

\* ------------------------------------------------------------------- C1
\* C1: no fusion of a pair runs and no output of the pair (FusedPose,
\* TransformSample, FusedTwist) exists in a state where one of the pair's two
\* roles has never received a sample.
C1_NoOutputBeforeBothRoles ==
    /\ (PoseFusing \/ final_pose_pub_ # <<>> \/ tf_broadcaster_ # <<>>)
          => (Received("lidar") /\ Received("gnss"))
    /\ (TwistFusing \/ fused_twist_pub_ # <<>>)
          => (Received("ekf") /\ Received("filter"))

\* two arrivals on lidar alone have been processed and nothing was emitted
C1_Witness ==
    /\ Len(processed) >= 2
    /\ \A k \in 1 .. Len(processed) : ArrivalOf(k, "lidar")
    /\ Running = {}
    /\ last_lidar_msg_.ptr = processed[Len(processed)]
    /\ final_pose_pub_ = <<>> /\ tf_broadcaster_ = <<>> /\ fused_twist_pub_ = <<>>

\* ------------------------------------------------------------------- C2
\* C2: every fused output was computed from the sample whose arrival
\* triggered it and from the most recent sample of the counterpart role at
\* that arrival; and every arrival processed after its counterpart role had
\* received a sample has produced a fused output.
FusedFromLatest(e, P) ==
    /\ RoleOf(e.trigger) \in P
    /\ e.src[RoleOf(e.trigger)] = {e.trigger}
    /\ \A r \in P : e.src[r] = {LatestOf(r, IndexOf(e.trigger))}

C2_FusesArrivalWithLatestCounterpart ==
    /\ \A e \in Elems(final_pose_pub_) : FusedFromLatest(e, PoseRoles)
    /\ \A e \in Elems(fused_twist_pub_) : FusedFromLatest(e, TwistRoles)
    /\ \A k \in ReadyArrivals(PoseRoles) :
          Completed(processed[k])
             => \E e \in Elems(final_pose_pub_) : e.trigger = processed[k]
    /\ \A k \in ReadyArrivals(TwistRoles) :
          Completed(processed[k])
             => \E e \in Elems(fused_twist_pub_) : e.trigger = processed[k]

\* a fusion whose counterpart sample was stored two arrivals before the trigger
C2_Witness ==
    \E e \in Elems(final_pose_pub_) :
        \E id \in e.src[Counterpart(RoleOf(e.trigger))] :
            IndexOf(e.trigger) - IndexOf(id) >= 2

\* ------------------------------------------------------------------- C3
\* C3: each arrival causes at most one emission per sink of its pair; when no
\* callback is running, the FusedPose count (and the TransformSample count)
\* equals the number of position-pair arrivals that found their counterpart
\* received, and the FusedTwist count that of the rate pair; a skipped arrival
\* is never replayed.
OnePerArrival(sink) ==
    \A j, k \in 1 .. Len(sink) : sink[j].trigger = sink[k].trigger => j = k

C3_OneEmissionPerReadyArrival ==
    /\ OnePerArrival(final_pose_pub_)
    /\ OnePerArrival(tf_broadcaster_)
    /\ OnePerArrival(fused_twist_pub_)
    /\ Len(final_pose_pub_) <= Cardinality(ReadyArrivals(PoseRoles))
    /\ Len(fused_twist_pub_) <= Cardinality(ReadyArrivals(TwistRoles))
    /\ Running = {} =>
          /\ Len(final_pose_pub_) = Cardinality(ReadyArrivals(PoseRoles))
          /\ Len(tf_broadcaster_) = Cardinality(ReadyArrivals(PoseRoles))
          /\ Len(fused_twist_pub_) = Cardinality(ReadyArrivals(TwistRoles))

\* two lidar arrivals were skipped, then gnss arrived: exactly one fusion
C3_Witness ==
    /\ Len(processed) = 3
    /\ ArrivalOf(1, "lidar") /\ ArrivalOf(2, "lidar") /\ ArrivalOf(3, "gnss")
    /\ Running = {}
    /\ Len(final_pose_pub_) = 1 /\ Len(tf_broadcaster_) = 1

\* ------------------------------------------------------------------- C4
\* C4: every FusedPose has position = w1 * A.position + w2 * B.position in
\* each component and the orientation of A, for the weights (w1, w2) and the
\* lidar sample A and gnss sample B it was fused from.  (Values are held
\* times Scale, so v = w1 a + w2 b reads v * Scale = W1 * A + W2 * B.)
PoseInputs(e) == e.src["lidar"] \X e.src["gnss"]

C4_PositionBlendOrientationOfPrimary ==
    /\ FusedPosition(DefaultWeight, <<D(1), 0, 0>>, DefaultWeight, <<D(3), 0, 0>>)
          = <<D(2), 0, 0>>
    /\ \A e \in Elems(final_pose_pub_) :
          /\ PoseInputs(e) # {}
          /\ \A in \in PoseInputs(e) :
                LET A == SampleOf(in[1])
                    B == SampleOf(in[2])
                IN  /\ \A k \in 1 .. 3 :
                          e.msg.position[k] * Scale
                             = lidar_weight_ * A.position[k] + gnss_weight_ * B.position[k]
                    /\ e.msg.orientation = A.orientation

\* a fused pose under unequal weights, from samples that differ in position
\* and orientation
C4_Witness ==
    /\ lidar_weight_ # gnss_weight_
    /\ \E e \in Elems(final_pose_pub_) :
          \E in \in PoseInputs(e) :
              /\ SampleOf(in[1]).position # SampleOf(in[2]).position
              /\ SampleOf(in[1]).orientation # SampleOf(in[2]).orientation

\* ------------------------------------------------------------------- C5
\* C5: for every index i of the 36, the fused pose covariance[i] is
\* w1 * A.covariance[i] + w2 * B.covariance[i] with the position weights, and
\* the fused twist covariance[i] likewise with the rate weights.
TwistInputs(e) == e.src["ekf"] \X e.src["filter"]

C5_CovarianceElementwiseBlend ==
    /\ \A e \in Elems(final_pose_pub_) :
          /\ PoseInputs(e) # {}
          /\ \A in \in PoseInputs(e) : \A i \in CovIdx :
                e.msg.covariance[i] * Scale
                   = lidar_weight_ * SampleOf(in[1]).covariance[i]
                     + gnss_weight_ * SampleOf(in[2]).covariance[i]
    /\ \A e \in Elems(fused_twist_pub_) :
          /\ TwistInputs(e) # {}
          /\ \A in \in TwistInputs(e) : \A i \in CovIdx :
                e.msg.covariance[i] * Scale
                   = ekf_twist_weight_ * SampleOf(in[1]).covariance[i]
                     + filter_twist_weight_ * SampleOf(in[2]).covariance[i]

\* a fused twist under unequal, non-zero rate weights whose last covariance
\* entry is not zero
C5_Witness ==
    /\ ekf_twist_weight_ # filter_twist_weight_
    /\ ekf_twist_weight_ # 0 /\ filter_twist_weight_ # 0
    /\ \E e \in Elems(fused_twist_pub_) : e.msg.covariance[CovLen - 1] # 0

\* ------------------------------------------------------------------- C6
\* C6 as stated: with weights (1, 0) the fused pose has the position,
\* orientation and covariance of the primary sample and the fused twist its
\* angular z and covariance; with weights (0, 1) the fused pose has the
\* position, orientation and covariance of the secondary sample and the fused
\* twist its angular z and covariance.
PoseEquals(e, s, o) ==
    /\ e.msg.position = s.position
    /\ e.msg.orientation = o.orientation
    /\ e.msg.covariance = s.covariance

TwistEquals(e, s) ==
    /\ e.msg.angular[3] = s.angular[3]
    /\ e.msg.covariance = s.covariance

TwistBoundary ==
    /\ (ekf_twist_weight_ = D(1) /\ filter_twist_weight_ = 0) =>
          \A e \in Elems(fused_twist_pub_) :
              TwistInputs(e) # {} /\ \A in \in TwistInputs(e) : TwistEquals(e, SampleOf(in[1]))
    /\ (ekf_twist_weight_ = 0 /\ filter_twist_weight_ = D(1)) =>
          \A e \in Elems(fused_twist_pub_) :
              TwistInputs(e) # {} /\ \A in \in TwistInputs(e) : TwistEquals(e, SampleOf(in[2]))

C7_AngularZBlendOthersZero ==
    \A e \in Elems(fused_twist_pub_) :
        /\ TwistInputs(e) # {}
        /\ e.msg.linear = <<0, 0, 0>>
        /\ e.msg.angular[1] = 0 /\ e.msg.angular[2] = 0
        /\ \A in \in TwistInputs(e) :
              e.msg.angular[3] * Scale
                 = ekf_twist_weight_ * SampleOf(in[1]).angular[3]
                   + filter_twist_weight_ * SampleOf(in[2]).angular[3]

\* a fused twist whose inputs are non-zero in all five unfused components
C7_Witness ==
    \E e \in Elems(fused_twist_pub_) : \E in \in TwistInputs(e) :
        \A s \in {SampleOf(in[1]), SampleOf(in[2])} :
            /\ \A k \in 1 .. 3 : s.linear[k] # 0
            /\ s.angular[1] # 0 /\ s.angular[2] # 0

\* ------------------------------------------------------------------- C8
\* C8: the k-th TransformSample has the translation of the position and the
\* rotation of the orientation of the k-th FusedPose, which the same fusion
\* published.
C8_TransformIsProjection ==
    /\ Len(tf_broadcaster_) <= Len(final_pose_pub_)
    /\ \A k \in 1 .. Len(tf_broadcaster_) :
          /\ tf_broadcaster_[k].trigger = final_pose_pub_[k].trigger
          /\ tf_broadcaster_[k].msg.translation = final_pose_pub_[k].msg.position
          /\ tf_broadcaster_[k].msg.rotation = final_pose_pub_[k].msg.orientation

\* a transform with a non-zero translation and a rotation other than identity
C8_Witness ==
    \E k \in 1 .. Len(tf_broadcaster_) :
        /\ tf_broadcaster_[k].msg.rotation # NewPose.orientation
        /\ \A j \in 1 .. 3 : tf_broadcaster_[k].msg.translation[j] # 0

\* ------------------------------------------------------------------- C9
\* C9: whenever a callback is about to read a role's slot, the slot is whole
\* (its two words name the same message) and holds one of the samples written
\* to that role, or nothing if none was; and every sample a fusion has read
\* from a role's slot is one written to that role.
SlotOf(r) == CASE r = "lidar"  -> last_lidar_msg_
               [] r = "gnss"   -> last_gnss_msg_
               [] r = "ekf"    -> last_ekf_twist_msg_
               [] r = "filter" -> last_filter_twist_msg_

\* the next step of callback c reads the slot of role r
ReadsSlot(c, r) ==
    LET f == frame[c] IN
    \/ f.pc = "check" /\ r = Counterpart(c)
    \/ f.pc \in {"fp_lidar_pos", "fp_orientation"} /\ r = "lidar"
    \/ f.pc = "fp_gnss_pos" /\ r = "gnss"
    \/ f.pc = "fp_covariance" /\ f.i < CovLen /\ r \in PoseRoles
    \/ f.pc = "ft_twist" /\ r \in TwistRoles
    \/ f.pc = "ft_covariance" /\ f.i < CovLen /\ r \in TwistRoles

WrittenTo(r) == {id \in Elems(processed) : RoleOf(id) = r}

SourcesWritten(src) == \A r \in Roles : src[r] \subseteq WrittenTo(r)

C9_ReadsSeeAWrittenSample ==
    /\ \A c \in Roles : \A r \in Roles :
          ReadsSlot(c, r) =>
             /\ SlotOf(r).ptr = SlotOf(r).ctl
             /\ IF WrittenTo(r) = {} THEN SlotOf(r).ptr = Null
                                     ELSE SlotOf(r).ptr \in WrittenTo(r)
    /\ \A c \in Roles : SourcesWritten(frame[c].src)
    /\ \A e \in Elems(final_pose_pub_) : SourcesWritten(e.src)
    /\ \A e \in Elems(fused_twist_pub_) : SourcesWritten(e.src)

\* two lidar messages were waiting at the same time, both have been written,
\* and the gnss callback is about to read the lidar slot
C9_Witness ==
    /\ Cardinality(WrittenTo("lidar")) >= 2
    /\ \E id \in WrittenTo("lidar") : msgs[id].queued >= 1
    /\ frame["gnss"].pc = "fp_lidar_pos"
    /\ last_lidar_msg_.ptr \in WrittenTo("lidar")

\* ------------------------------------------------------------------ C10
\* C10: every fusion, in progress or published, has read each role's slot as
\* one and the same sample throughout: the position, the orientation and all
\* 36 covariance entries of a FusedPose come from one lidar sample and one
\* gnss sample, and a FusedTwist from one ekf and one filter sample.
C10_FusionReadsOneSamplePerRole ==
    /\ \A c \in Roles : \A r \in Roles : Cardinality(frame[c].src[r]) <= 1
    /\ \A e \in Elems(final_pose_pub_) :
          \A r \in PoseRoles : Cardinality(e.src[r]) = 1
    /\ \A e \in Elems(fused_twist_pub_) :
          \A r \in TwistRoles : Cardinality(e.src[r]) = 1

\* a pose fusion is part-way through the covariance loop while a newer lidar
\* message waits in the subscription's queue
C10_Witness ==
    \E c \in PoseRoles :
        /\ frame[c].pc = "fp_covariance"
        /\ frame[c].i > 0 /\ frame[c].i < CovLen
        /\ inbox["lidar"] # <<>>
        /\ Cardinality(frame[c].src["lidar"]) = 1

\* ------------------------------------------------------------------ C11
\* C11: a role's slot is empty if the role has received no sample and
\* otherwise holds, whole, the most recent sample that arrived for the role
\* (the one published last among those received), whatever has arrived on
\* the other three roles since; only while the role's own callback is
\* assigning it does the slot differ.
Assigning(r) == frame[r].pc \in {"store_ptr", "store_ctl"}

MostRecent(r) == IF WrittenTo(r) = {} THEN Null ELSE Largest(WrittenTo(r))

C11_SlotHoldsMostRecentOfItsRole ==
    \A r \in Roles :
        ~Assigning(r) =>
            /\ SlotOf(r).ptr = MostRecent(r)
            /\ SlotOf(r).ctl = MostRecent(r)

\* lidar received two samples and holds the second, gnss holds its one
\* although lidar arrived after it, and the rate slots are empty
C11_Witness ==
    /\ Running = {}
    /\ Len(processed) = 3
    /\ ArrivalOf(1, "lidar") /\ ArrivalOf(2, "gnss") /\ ArrivalOf(3, "lidar")
    /\ last_lidar_msg_ = [ptr |-> processed[3], ctl |-> processed[3]]
    /\ last_gnss_msg_ = [ptr |-> processed[2], ctl |-> processed[2]]
    /\ last_ekf_twist_msg_ = NullPtr /\ last_filter_twist_msg_ = NullPtr

\* ------------------------------------------------------------------ C12
\* C12: an arrival whose counterpart role has received nothing never enters
\* a fusion, emits nothing on any sink and reads no clock; its callback only
\* assigns its own slot and returns, where the sample stays, whole, until
\* the role's next arrival, and is what the next fusion of the pair reads.
ReadyAll == ReadyArrivals(PoseRoles) \cup ReadyArrivals(TwistRoles)

Skipped == {processed[k] : k \in (1 .. Len(processed)) \ ReadyAll}

TriggersOf(sink) == {sink[k].trigger : k \in 1 .. Len(sink)}

C12_SkippedArrivalOnlyStores ==
    /\ \A id \in Skipped :
          /\ id \notin TriggersOf(final_pose_pub_)
          /\ id \notin TriggersOf(tf_broadcaster_)
          /\ id \notin TriggersOf(fused_twist_pub_)
          /\ \A c \in Roles :
                frame[c].msg = id =>
                   /\ c = RoleOf(id)
                   /\ frame[c].pc \in {"store_ptr", "store_ctl", "check"}
                   /\ frame[c].src = NoReads
          /\ (Completed(id) /\ id = MostRecent(RoleOf(id)) /\ ~Assigning(RoleOf(id)))
                => SlotOf(RoleOf(id)) = [ptr |-> id, ctl |-> id]
    /\ ReadyAll = {} => clock = 1
    /\ \A e \in Elems(final_pose_pub_) \cup Elems(fused_twist_pub_) :
          \A r \in Roles : \A id \in Skipped :
              (RoleOf(id) = r /\ e.src[r] # {} /\ id = LatestOf(r, IndexOf(e.trigger)))
                 => e.src[r] = {id}

\* an ekf arrival was skipped and returned; the filter arrival after it
\* fused with the sample the skipped arrival had stored
C12_Witness ==
    /\ Running = {}
    /\ \E id \in Skipped :
          /\ RoleOf(id) = "ekf"
          /\ \E e \in Elems(fused_twist_pub_) : e.src["ekf"] = {id}

\* ------------------------------------------------------------------ C13
\* C13: in every state each of the four weights is 0.5, the value it was
\* constructed with, and every fused output published in the run is the
\* 0.5 / 0.5 blend of its inputs (v = a/2 + b/2 reads v + v = a + b).
IsHalf(w) == w + w = Scale

C13_WeightsStayAtConstruction ==
    /\ IsHalf(lidar_weight_) /\ IsHalf(gnss_weight_)
    /\ IsHalf(ekf_twist_weight_) /\ IsHalf(filter_twist_weight_)
    /\ \A e \in Elems(final_pose_pub_) : \A in \in PoseInputs(e) :
          \A k \in 1 .. 3 :
              e.msg.position[k] + e.msg.position[k]
                 = SampleOf(in[1]).position[k] + SampleOf(in[2]).position[k]
    /\ \A e \in Elems(fused_twist_pub_) : \A in \in TwistInputs(e) :
          e.msg.angular[3] + e.msg.angular[3]
             = SampleOf(in[1]).angular[3] + SampleOf(in[2]).angular[3]

\* The same, for any construction-time values: no step changes a weight.
WeightsNeverChange == [][weights' = weights]_vars

\* two fusions of the position pair have been published in one run
C13_Witness ==
    /\ Len(final_pose_pub_) >= 2
    /\ Len(tf_broadcaster_) >= 2
    /\ IsHalf(lidar_weight_) /\ IsHalf(gnss_weight_)

\* ------------------------------------------------------------------ C14
\* C14: a slot that holds a sample holds one in every later state, so a pair
\* that is ready stays ready; and the node never stops: a running callback
\* can always take its next step, and when none runs the callback of every
\* role with a message waiting can be invoked.
NodeStep ==
    \/ \E r \in Roles : Dispatch(r)
    \/ lidarPoseCallback
    \/ gnssPoseCallback
    \/ ekfTwistCallback
    \/ filterTwistCallback
    \/ \E c \in PoseRoles : fusePoses(c)
    \/ \E c \in TwistRoles : fuseTwists(c)

NoTerminalState ==
    /\ Running # {} => ENABLED NodeStep
    /\ Running = {} => \A r \in Roles : inbox[r] # <<>> => ENABLED Dispatch(r)

SlotsStayFilled ==
    /\ HasValue(last_lidar_msg_) => HasValue(last_lidar_msg_')
    /\ HasValue(last_gnss_msg_) => HasValue(last_gnss_msg_')
    /\ HasValue(last_ekf_twist_msg_) => HasValue(last_ekf_twist_msg_')
    /\ HasValue(last_filter_twist_msg_) => HasValue(last_filter_twist_msg_')

C14_ReadinessMonotonicNoTerminal == [][SlotsStayFilled]_vars /\ []NoTerminalState

\* both position slots are filled, a second lidar sample is being assigned
\* over the first, and a gnss message waits for the callback to return
C14_Witness ==
    /\ HasValue(last_lidar_msg_) /\ HasValue(last_gnss_msg_)
    /\ frame["lidar"].pc = "store_ctl"
    /\ last_lidar_msg_.ptr # last_lidar_msg_.ctl
    /\ inbox["gnss"] # <<>>

\* ------------------------------------------------------------------ C15
\* C15: under a weight pair that does not sum to 1 or has a member outside
\* [0, 1], every arrival that finds its counterpart received still runs its
\* fusion to the end and publishes, no callback stops, and the output is
\* w1 * primary + w2 * secondary in the position (or the angular z) and in
\* each of the 36 covariance entries.
Unnormalized(w1, w2) ==
    \/ w1 + w2 # Scale
    \/ w1 < 0 \/ w1 > Scale
    \/ w2 < 0 \/ w2 > Scale

C15_UnnormalizedWeightsStillFuse ==
    /\ Unnormalized(lidar_weight_, gnss_weight_) =>
          /\ \A c \in PoseRoles : frame[c].pc # "idle" => ENABLED NodeStep
          /\ \A k \in ReadyArrivals(PoseRoles) :
                Completed(processed[k])
                   => \E e \in Elems(final_pose_pub_) : e.trigger = processed[k]
          /\ \A e \in Elems(final_pose_pub_) : \A in \in PoseInputs(e) :
                /\ \A k \in 1 .. 3 :
                      e.msg.position[k] * Scale
                         = lidar_weight_ * SampleOf(in[1]).position[k]
                           + gnss_weight_ * SampleOf(in[2]).position[k]
                /\ \A i \in CovIdx :
                      e.msg.covariance[i] * Scale
                         = lidar_weight_ * SampleOf(in[1]).covariance[i]
                           + gnss_weight_ * SampleOf(in[2]).covariance[i]
    /\ Unnormalized(ekf_twist_weight_, filter_twist_weight_) =>
          /\ \A c \in TwistRoles : frame[c].pc # "idle" => ENABLED NodeStep
          /\ \A k \in ReadyArrivals(TwistRoles) :
                Completed(processed[k])
                   => \E e \in Elems(fused_twist_pub_) : e.trigger = processed[k]
          /\ \A e \in Elems(fused_twist_pub_) : \A in \in TwistInputs(e) :
                /\ e.msg.angular[3] * Scale
                      = ekf_twist_weight_ * SampleOf(in[1]).angular[3]
                        + filter_twist_weight_ * SampleOf(in[2]).angular[3]
                /\ \A i \in CovIdx :
                      e.msg.covariance[i] * Scale
                         = ekf_twist_weight_ * SampleOf(in[1]).covariance[i]
                           + filter_twist_weight_ * SampleOf(in[2]).covariance[i]

\* under a negative gnss weight a fused position was published whose x lies
\* beyond the x of both inputs
C15_Witness ==
    /\ gnss_weight_ < 0
    /\ \E e \in Elems(final_pose_pub_) : \E in \in PoseInputs(e) :
          /\ e.msg.position[1] > SampleOf(in[1]).position[1]
          /\ e.msg.position[1] > SampleOf(in[2]).position[1]

\* ------------------------------------------------------------------ C16
\* C16: the transforms sent never outnumber the fused poses published; the
\* k-th transform comes from the fusion that published the k-th fused pose
\* and carries its timestamp; the counts are equal whenever no pose fusion
\* is in progress, and otherwise differ by at most the one fused pose whose
\* transform the running fusion is about to send.
C16_PoseThenItsTransform ==
    /\ Len(tf_broadcaster_) <= Len(final_pose_pub_)
    /\ Len(final_pose_pub_) <= Len(tf_broadcaster_) + 1
    /\ ~PoseFusing => Len(tf_broadcaster_) = Len(final_pose_pub_)
    /\ Len(final_pose_pub_) = Len(tf_broadcaster_) + 1 =>
          \E c \in PoseRoles :
              /\ frame[c].pc = "fp_broadcast"
              /\ frame[c].msg = final_pose_pub_[Len(final_pose_pub_)].trigger
    /\ \A k \in 1 .. Len(tf_broadcaster_) :
          /\ tf_broadcaster_[k].trigger = final_pose_pub_[k].trigger
          /\ tf_broadcaster_[k].msg.stamp = final_pose_pub_[k].msg.stamp
          /\ tf_broadcaster_[k].msg.frame_id = final_pose_pub_[k].msg.frame_id

\* a second fusion has published its fused pose and has yet to send its
\* transform
C16_Witness ==
    /\ Len(tf_broadcaster_) >= 1
    /\ Len(final_pose_pub_) = Len(tf_broadcaster_) + 1
    /\ \E c \in PoseRoles : frame[c].pc = "fp_broadcast"

\* ------------------------------------------------------------------ C17
\* C17: the two pairs are independent. Every FusedPose and TransformSample
\* was triggered by a position arrival and read no rate slot, every
\* FusedTwist was triggered by a rate arrival and read no position slot; a
\* step of a position callback leaves the rate slots and the FusedTwist sink
\* unchanged, a step of a rate callback leaves the position slots and the
\* FusedPose and TransformSample sinks unchanged; and whether an arrival
\* fuses is decided by the earlier arrivals of its own pair alone.
PairOf(r) == IF r \in PoseRoles THEN PoseRoles ELSE TwistRoles

\* the arrival of a role of pair P fuses exactly when its counterpart had
\* received a sample before it
FusesWhenOwnPairReady(P, sink) ==
    \A k \in 1 .. Len(processed) :
        (RoleOf(processed[k]) \in P /\ Completed(processed[k]))
           => (processed[k] \in TriggersOf(sink) <=> k \in ReadyArrivals(P))

PairsApart ==
    /\ \A e \in Elems(final_pose_pub_) :
          /\ RoleOf(e.trigger) \in PoseRoles
          /\ \A r \in TwistRoles : e.src[r] = {}
    /\ \A e \in Elems(tf_broadcaster_) : RoleOf(e.trigger) \in PoseRoles
    /\ \A e \in Elems(fused_twist_pub_) :
          /\ RoleOf(e.trigger) \in TwistRoles
          /\ \A r \in PoseRoles : e.src[r] = {}
    /\ \A c \in PoseRoles : frame[c].pc \notin TwistPcs
    /\ \A c \in TwistRoles : frame[c].pc \notin PosePcs
    /\ \A c \in Roles : \A r \in Roles \ PairOf(c) : frame[c].src[r] = {}
    /\ FusesWhenOwnPairReady(PoseRoles, final_pose_pub_)
    /\ FusesWhenOwnPairReady(PoseRoles, tf_broadcaster_)
    /\ FusesWhenOwnPairReady(TwistRoles, fused_twist_pub_)

\* a step of the callback of role c touches the slots and sinks of c's pair
\* only; a step of no callback (a sample published to a topic) touches none
StepStaysInPair ==
    /\ \A c \in PoseRoles :
          frame'[c] # frame[c] =>
             /\ twistSlots' = twistSlots
             /\ fused_twist_pub_' = fused_twist_pub_
    /\ \A c \in TwistRoles :
          frame'[c] # frame[c] =>
             /\ poseSlots' = poseSlots
             /\ final_pose_pub_' = final_pose_pub_
             /\ tf_broadcaster_' = tf_broadcaster_
    /\ frame' = frame => (slots' = slots /\ sinks' = sinks)
    /\ \A c \in Roles :
          (frame[c].pc = "check" /\ frame'[c] # frame[c]) =>
             (frame'[c].pc # "idle" <=> HasValue(SlotOf(Counterpart(c))))

C17_PairsAreIndependent == []PairsApart /\ [][StepStaysInPair]_vars

\* the rate pair has fused while no position sample was ever received, and a
\* lidar arrival after that returned without any pose output
C17_Witness ==
    /\ Running = {}
    /\ Len(processed) = 3 /\ RoleOf(processed[3]) = "lidar"
    /\ ~Received("gnss")
    /\ Len(fused_twist_pub_) = 1
    /\ final_pose_pub_ = <<>> /\ tf_broadcaster_ = <<>>
    /\ HasValue(last_lidar_msg_)
====
